---- MODULE Spec2Model ----
(***************************************************************************)
(* Model of the Techlearn auth server (register, login, refresh, logout)   *)
(* over its two MongoDB collections, users and refresh tokens, and of the  *)
(* resource server's authenticateToken middleware in front of GET /courses *)
(* and of its progress endpoints (POST /progress, GET /progress/:userId)   *)
(* over the progress collection and the response cache.                    *)
(*                                                                         *)
(* Every request handler is an async function.  Each `await` on a store    *)
(* operation is a point where other handlers run, so a handler is a        *)
(* sequence of atomic steps: the effect of one store operation together    *)
(* with the synchronous code that issued it.  The response that follows    *)
(* the last store operation is a step of its own (Respond).  The handler   *)
(* invocations in flight are anonymous, so they are kept as a bag.         *)
(*                                                                         *)
(* Time is counted in abstract ticks.  jsonwebtoken stamps `iat` with the  *)
(* clock truncated to a whole unit, so two tokens signed for the same      *)
(* payload with the same secret inside one tick are the same string.       *)
(***************************************************************************)
EXTENDS Naturals, Integers, Sequences, FiniteSets, Bags, TLC

(* ---------------------------- bounds ---------------------------------- *)
MaxInFlight == 2
MaxRequests == 4
MaxTime == 2

(* ----------------------- program constants ---------------------------- *)
\* expiresIn: '7d' and '15m', scaled to ticks
RefreshTTL == 2
AccessTTL == 1
UsernameMinLen == 3
UsernameMaxLen == 20
PasswordMinLen == 8
\* the users schema: name { minlength: 3, maxlength: 30 }
SchemaNameMinLen == 3
SchemaNameMaxLen == 30
\* bcrypt.hash(password, 10) and the cost field of the dummy hash literal
BcryptCost == 10
DummyCost == 10

\* dotenv.config(): the environment the two servers are started with.  The
\* code reads the two secrets from it and compares them nowhere, so a
\* deployment may give both variables the same value
VARIABLE env

Configurations ==
    {[ACCESS_TOKEN_SECRET |-> "access-secret",
      REFRESH_TOKEN_SECRET |-> "refresh-secret"],
     [ACCESS_TOKEN_SECRET |-> "shared-secret",
      REFRESH_TOKEN_SECRET |-> "shared-secret"]}

\* process.env.ACCESS_TOKEN_SECRET / REFRESH_TOKEN_SECRET
AccessSecret == env.ACCESS_TOKEN_SECRET
RefreshSecret == env.REFRESH_TOKEN_SECRET
\* a refresh secret of an earlier deployment: rows signed with it are still
\* in the durable collection but no longer verify
RetiredSecret == "RETIRED_REFRESH_SECRET"

(* ------------------------ strings as characters ----------------------- *)
Lower == {"a", "b", "d", "e", "f", "h", "i", "n", "o", "r", "s", "t", "u", "w"}
Upper == {"P"}
Digit == {"0", "1"}
WordChar == Lower \cup Upper \cup Digit \cup {"_"}

\* /^[a-zA-Z0-9_]{3,20}$/
usernameRegex(s) ==
    /\ Len(s) >= UsernameMinLen
    /\ Len(s) <= UsernameMaxLen
    /\ \A i \in 1..Len(s) : s[i] \in WordChar

\* /^(?=.*\d)(?=.*[a-z])(?=.*[A-Z]).{8,}$/
passwordRegex(s) ==
    /\ \E i \in 1..Len(s) : s[i] \in Digit
    /\ \E i \in 1..Len(s) : s[i] \in Lower
    /\ \E i \in 1..Len(s) : s[i] \in Upper
    /\ Len(s) >= PasswordMinLen

ValidName == <<"b", "o", "b", "_", "0", "1">>
BadName == <<"a", "!">>
GoodPassword == <<"P", "a", "s", "s", "w", "0", "r", "d">>
WeakPassword == <<"s", "h", "o", "r", "t", "1">>

\* RegExp.prototype.test(req.body[k]) tests String(req.body[k]); a field
\* that the body lacks is undefined and is tested as the text "undefined"
Stringify(body, k) ==
    IF k \in DOMAIN body THEN body[k]
    ELSE <<"u", "n", "d", "e", "f", "i", "n", "e", "d">>

\* the bodies of POST /register and POST /login that clients send; a
\* client may leave a field out
RegisterInputs ==
    {[name |-> ValidName, password |-> GoodPassword],
     [name |-> ValidName, password |-> GoodPassword, isAdmin |-> TRUE],
     [name |-> ValidName, password |-> WeakPassword, isAdmin |-> FALSE],
     [name |-> BadName, password |-> GoodPassword, isAdmin |-> FALSE],
     [password |-> GoodPassword]}
LoginInputs ==
    {[name |-> ValidName, password |-> GoodPassword],
     [name |-> ValidName, password |-> WeakPassword],
     [name |-> ValidName]}

(* ------------------------------ bcrypt -------------------------------- *)
\* bcrypt.hash(password, 10): version and cost, then 53 characters: the
\* salt (22) and the salted one-way image of the password (31)
bcryptHash(p) ==
    [version |-> "2b", cost |-> BcryptCost, tail |-> 53, digest |-> p]

\* a dummy hash whose cost field is 4
DummyHashCheap == [version |-> "2b", cost |-> 4, tail |-> 25]

\* '$2b$10$dummyhashdummyhashdummyha': version, cost and 25 characters
\* that hold a salt but no digest
DummyHash == [version |-> "2b", cost |-> DummyCost, tail |-> 25]

\* bcrypt.compare(password, hash): the result
bcryptCompare(p, h) == h = bcryptHash(p)

\* bcrypt.compare(password, hash): the work, in key-expansion rounds.  When
\* the string holds a version, a cost and at least the 22 characters of a
\* salt, the comparison hashes the password with them and then compares
\* the digests; otherwise it answers false at once
bcryptWork(h) == IF h.tail >= 22 THEN 2 ^ h.cost ELSE 0

(* ---------------------------- jsonwebtoken ---------------------------- *)
NoToken == [kind |-> "absent"]

\* jwt.sign(payload, secret, {expiresIn}): iat is the clock, exp = iat + ttl
jwtSign(payload, secret, ttl, clock) ==
    [kind |-> "jwt", payload |-> payload, iat |-> clock,
     exp |-> clock + ttl, sig |-> secret]

\* jwt.verify that checks the expiry but not the signature
jwtVerifyUnsigned(t, secret, clock) ==
    IF t.kind # "jwt" THEN "JsonWebTokenError"
    ELSE IF clock >= t.exp THEN "TokenExpiredError"
    ELSE "ok"

\* jwt.verify(token, secret): the err handed to the callback
jwtVerify(t, secret, clock) ==
    IF t.kind # "jwt" \/ t.sig # secret THEN "JsonWebTokenError"
    ELSE IF clock >= t.exp THEN "TokenExpiredError"
    ELSE "ok"

\* generateAccessToken(user); a stored user has no isAdmin path in its
\* schema, so user.isAdmin is undefined unless the document carries it
userIsAdmin(user) == IF "isAdmin" \in DOMAIN user THEN user.isAdmin ELSE FALSE

generateAccessToken(user, clock) ==
    jwtSign([userId |-> user.id, name |-> user.name,
             isAdmin |-> userIsAdmin(user)],
            AccessSecret, AccessTTL, clock)

signRefreshToken(user, clock) ==
    jwtSign([userId |-> user.id], RefreshSecret, RefreshTTL, clock)

(* ------------------- the resource server's middleware ----------------- *)
\* the Authorization header of a request to the resource server
NoHeader == [scheme |-> "none"]
Bearer(t) == [scheme |-> "Bearer", token |-> t]

\* a token string that is not a JWT
MalformedToken == [kind |-> "malformed"]

\* authHeader && authHeader.split(' ')[1]
headerToken(header) ==
    IF "token" \in DOMAIN header THEN header.token ELSE NoToken

\* req.user = { userId: decoded.userId, name: decoded.name,
\*              isAdmin: decoded.isAdmin || false }
decodedUser(payload) ==
    IF "name" \in DOMAIN payload
    THEN [userId |-> payload.userId, name |-> payload.name,
          isAdmin |-> IF "isAdmin" \in DOMAIN payload
                      THEN payload.isAdmin ELSE FALSE]
    ELSE [userId |-> payload.userId, isAdmin |-> FALSE]

\* a middleware without the TokenExpiredError case: every err is a 403
authenticateTokenOneError(header, clock) ==
    LET token == headerToken(header)
        err == jwtVerify(token, AccessSecret, clock)
    IN  IF token = NoToken
        THEN [next |-> FALSE, status |-> 401,
              out |-> [error |-> "Missing authentication token"]]
        ELSE IF err # "ok"
        THEN [next |-> FALSE, status |-> 403,
              out |-> [error |-> "Invalid token"]]
        ELSE [next |-> TRUE, user |-> decodedUser(token.payload)]

\* authenticateToken(req, res, next): either the response it sends or the
\* identity it attaches before calling next()
authenticateToken(header, clock) ==
    LET token == headerToken(header)
        err == jwtVerify(token, AccessSecret, clock)
    IN  IF token = NoToken
        THEN [next |-> FALSE, status |-> 401,
              out |-> [error |-> "Missing authentication token"]]
        ELSE IF err = "TokenExpiredError"
        THEN [next |-> FALSE, status |-> 401,
              out |-> [error |-> "Token expired"]]
        ELSE IF err # "ok"
        THEN [next |-> FALSE, status |-> 403,
              out |-> [error |-> "Invalid token"]]
        ELSE [next |-> TRUE, user |-> decodedUser(token.payload)]

(* ------------------------------ state --------------------------------- *)
VARIABLES
    users,      \* the users collection
    rtStore,    \* the refresh tokens collection, a bag of documents
    now,        \* the clock
    req,        \* the handler invocations in flight, a bag of records
    started,    \* number of requests received so far
    issued,     \* refresh tokens that a 200 login response has handed out
    revoked,    \* tokens whose DELETE /logout has been answered 204
    progress,   \* the progress collection of the resource server
    memCache    \* the response cache of the resource server, by URL

vars == <<env, users, rtStore, now, req, started, issued, revoked,
          progress, memCache>>

NoUser == [id |-> 0]

\* a handler invocation that has just received its request
NewReq(op, body) ==
    [op |-> op, pc |-> "start", body |-> body, user |-> NoUser,
     tmp |-> NoToken, status |-> 0, out |-> [none |-> TRUE],
     failed |-> FALSE, storeOps |-> 0, afterLogout |-> FALSE, work |-> 0]

\* The collections are durable and outlive a server process, so the server
\* may start on rows of an earlier run.  RetiredRow was signed when the
\* deployment still used RetiredSecret.  OrphanRow was signed with the
\* current refresh secret for a user whose document has since been removed
\* from the users collection.
RetiredToken == jwtSign([userId |-> 0], RetiredSecret, RefreshTTL, 0)
RetiredRow == [token |-> RetiredToken, userId |-> 0, expiresAt |-> RefreshTTL]
OrphanToken == jwtSign([userId |-> 0], RefreshSecret, RefreshTTL, 0)
OrphanRow == [token |-> OrphanToken, userId |-> 0, expiresAt |-> RefreshTTL]

\* the user document of a registration made in the earlier run
EarlierUser ==
    [id |-> 1, name |-> ValidName, password |-> bcryptHash(GoodPassword)]

\* a fresh deployment, or a restart on the collections of an earlier run
Init ==
    /\ env \in Configurations
    /\ \/ users = {} /\ rtStore = EmptyBag
       \/ users = {EarlierUser}
          /\ rtStore = SetToBag({RetiredRow, OrphanRow})
    /\ issued = {}
    /\ now = 0
    /\ req = EmptyBag
    /\ started = 0
    /\ revoked = {}
    /\ progress = {}
    /\ memCache = {}

(* --------------------------- the collections -------------------------- *)
\* User.findOne({ name })
UserFindOne(name) ==
    IF \E u \in users : u.name = name
    THEN CHOOSE u \in users : u.name = name
    ELSE NoUser

\* User.findById(id)
UserFindById(id) ==
    IF \E u \in users : u.id = id
    THEN CHOOSE u \in users : u.id = id
    ELSE NoUser

\* User.findOne({ name: req.body.name }); an undefined filter value is
\* sent as null, which no document's name equals
UserFindOneOf(body) ==
    IF "name" \in DOMAIN body THEN UserFindOne(body.name) ELSE NoUser

\* req.body.isAdmin || false
requestedAdmin(body) ==
    IF "isAdmin" \in DOMAIN body THEN body.isAdmin ELSE FALSE

\* new User({name, password, isAdmin}): the schema has the paths name,
\* password and createdAt; strict mode drops every other key, and an
\* undefined name leaves the path unset
NewUser(body, hashed, isAdmin) ==
    IF "name" \in DOMAIN body
    THEN [id |-> Cardinality(users) + 1, name |-> body.name,
          password |-> hashed]
    ELSE [id |-> Cardinality(users) + 1, password |-> hashed]

\* the validation that save() runs first: name is required and has a
\* minimum and a maximum length
UserValidates(doc) ==
    /\ "name" \in DOMAIN doc
    /\ Len(doc.name) >= SchemaNameMinLen
    /\ Len(doc.name) <= SchemaNameMaxLen

\* the unique index on name rejects a second document with the same name
UserSaveOk(doc) == \A u \in users : u.name # doc.name

\* the documents of the collection whose token field is t
RowsOf(t) == {row \in BagToSet(rtStore) : row.token = t}

\* RefreshToken.findOne({ token }) finds a document
RefreshTokenExists(t) == RowsOf(t) # {}

\* the unique index on token rejects a second row with the same string
RefreshTokenSaveOk(row) == RowsOf(row.token) = {}

\* a deleteOne whose filter matches nothing
RefreshTokenDeleteNothing(t) == rtStore

\* RefreshToken.deleteOne({ token }): removes the first match, if any
RefreshTokenDeleteOne(t) ==
    IF RowsOf(t) = {} THEN rtStore
    ELSE rtStore (-) SetToBag({CHOOSE row \in RowsOf(t) : TRUE})

(* ------------------------------ requests ------------------------------ *)
\* the access tokens that came in the login responses that handed out the
\* refresh tokens in issued (user documents are never changed or removed)
IssuedAccess ==
    {generateAccessToken(UserFindById(t.payload.userId), t.iat) : t \in issued}

\* the token strings a client can put in a request body: none, the two
\* strings of the earlier run, and the strings that login responses have
\* handed out (nobody can produce a signed string without the secret)
TokenInputs == {NoToken, RetiredToken, OrphanToken} \cup issued

\* the same, for a client that also tries its access tokens there
AnyTokenInputs == TokenInputs \cup IssuedAccess

\* the Authorization headers a client can send to the resource server
HeaderInputs ==
    {NoHeader} \cup
    {Bearer(t) : t \in {MalformedToken} \cup issued \cup IssuedAccess}

InFlight == BagToSet(req)

\* the server is handling fewer than MaxInFlight requests
CanStart ==
    /\ BagCardinality(req) < MaxInFlight
    /\ started < MaxRequests

\* a request arrives and its handler runs up to state q
Arrive(q) == req (+) SetToBag({q})

\* the handler in state q runs up to state q2
Move(q, q2) == (req (-) SetToBag({q})) (+) SetToBag({q2})

\* the handler in state q has sent its response
Leave(q) == req (-) SetToBag({q})

\* res.status(s).json(out): the response is decided, Respond sends it
Answer(q, s, out) == [q EXCEPT !.pc = "respond", !.status = s, !.out = out]

Tick ==
    /\ now < MaxTime
    /\ now' = now + 1
    /\ UNCHANGED <<env, progress, memCache,
                   users, rtStore, req, started, issued, revoked>>

\* a registration that goes to save() without looking the name up
RegisterNoLookup(body) ==
    /\ CanStart
    /\ started' = started + 1
    /\ LET q == NewReq("register", body)
       IN  req' = Arrive(
             IF ~usernameRegex(Stringify(body, "name"))
             THEN Answer(q, 400, [error |-> "Username must be 3-20 characters"])
             ELSE IF ~passwordRegex(Stringify(body, "password"))
             THEN Answer(q, 400, [error |-> "Password must contain"])
             ELSE [q EXCEPT !.pc = "reg_save", !.storeOps = 1])
    /\ UNCHANGED <<env, progress, memCache,
                   users, rtStore, now, issued, revoked>>

\* POST /register up to the end of User.findOne
Register(body) ==
    /\ CanStart
    /\ started' = started + 1
    /\ LET q == NewReq("register", body)
       IN  req' = Arrive(
             IF ~usernameRegex(Stringify(body, "name"))
             THEN Answer(q, 400, [error |-> "Username must be 3-20 characters"])
             ELSE IF ~passwordRegex(Stringify(body, "password"))
             THEN Answer(q, 400, [error |-> "Password must contain"])
             ELSE IF UserFindOneOf(body) # NoUser
             THEN Answer([q EXCEPT !.storeOps = 1], 409,
                         [error |-> "Username already exists"])
             ELSE [q EXCEPT !.pc = "reg_save", !.storeOps = 1])
    /\ UNCHANGED <<env, progress, memCache,
                   users, rtStore, now, issued, revoked>>

\* bcrypt.hash, new User(...).save() and what follows it
RegisterSave ==
  \E q \in InFlight :
    /\ q.pc = "reg_save"
    /\ LET doc == NewUser(q.body, bcryptHash(q.body.password),
                          requestedAdmin(q.body))
       IN  IF UserValidates(doc) /\ UserSaveOk(doc)
           THEN /\ users' = users \cup {doc}
                /\ req' = Move(q,
                     Answer([q EXCEPT !.storeOps = @ + 1, !.user = doc], 201,
                            [id |-> doc.id, name |-> doc.name]))
           ELSE \* ValidationError or E11000 duplicate key: thrown into
                \* the catch block
                /\ users' = users
                /\ req' = Move(q,
                     Answer([q EXCEPT !.storeOps = @ + 1], 500,
                            [error |-> "Server error during registration"]))
    /\ UNCHANGED <<env, progress, memCache,
                   rtStore, now, started, issued, revoked>>

\* POST /login up to the end of bcrypt.compare: User.findOne and the
\* password check
Login(body) ==
    /\ CanStart
    /\ started' = started + 1
    /\ LET q == [NewReq("login", body) EXCEPT !.storeOps = 1]
           user == UserFindOneOf(body)
       IN  req' = Arrive(
             IF user = NoUser
             THEN \* after bcrypt.compare('dummy', dummy hash)
                  Answer([q EXCEPT !.work = bcryptWork(DummyHash)],
                         401, [error |-> "Invalid credentials"])
             ELSE IF "password" \notin DOMAIN body
             THEN \* bcrypt.compare(undefined, hash) rejects with "data and
                  \* hash arguments required": thrown into the catch block
                  Answer(q, 500, [error |-> "Server error during login"])
             ELSE IF ~bcryptCompare(body.password, user.password)
             THEN Answer([q EXCEPT !.work = bcryptWork(user.password)],
                         401, [error |-> "Invalid credentials"])
             ELSE [q EXCEPT !.pc = "login_save", !.user = user,
                            !.work = bcryptWork(user.password)])
    /\ UNCHANGED <<env, progress, memCache,
                   users, rtStore, now, issued, revoked>>

\* the row that login builds for its refresh token
LoginRow(q, clock) ==
    [token |-> signRefreshToken(q.user, clock), userId |-> q.user.id,
     expiresAt |-> clock + RefreshTTL]

\* the body of login's 200 response
LoginResponse(q, clock) ==
    [accessToken |-> generateAccessToken(q.user, clock),
     refreshToken |-> signRefreshToken(q.user, clock),
     userId |-> q.user.id, name |-> q.user.name,
     isAdmin |-> userIsAdmin(q.user)]

\* a login that writes its row past the unique index
LoginSaveUnchecked ==
  \E q \in InFlight :
    /\ q.pc = "login_save"
    /\ LET q1 == [q EXCEPT !.storeOps = @ + 1,
                           !.tmp = signRefreshToken(q.user, now)]
       IN  /\ rtStore' = rtStore (+) SetToBag({LoginRow(q, now)})
           /\ req' = Move(q, Answer(q1, 200, LoginResponse(q, now)))
    /\ UNCHANGED <<env, progress, memCache,
                   users, now, started, issued, revoked>>

\* the two jwt.sign calls, new RefreshToken({token, userId, expiresAt})
\* .save() and what follows it
LoginSave ==
  \E q \in InFlight :
    /\ q.pc = "login_save"
    /\ LET q1 == [q EXCEPT !.storeOps = @ + 1,
                           !.tmp = signRefreshToken(q.user, now)]
       IN  IF RefreshTokenSaveOk(LoginRow(q, now))
           THEN /\ rtStore' = rtStore (+) SetToBag({LoginRow(q, now)})
                /\ req' = Move(q, Answer(q1, 200, LoginResponse(q, now)))
           ELSE \* duplicate key: thrown into the catch block
                /\ rtStore' = rtStore
                /\ req' = Move(q,
                     Answer(q1, 500, [error |-> "Server error during login"]))
    /\ UNCHANGED <<env, progress, memCache,
                   users, now, started, issued, revoked>>

\* a refresh that goes to jwt.verify without looking the token up
TokenSkipLookup(inputs) ==
  \E t \in inputs :
    /\ CanStart
    /\ started' = started + 1
    /\ LET q == [NewReq("token", [token |-> t])
                 EXCEPT !.afterLogout = (t \in revoked)]
       IN  req' = Arrive(
             IF t = NoToken
             THEN Answer(q, 401, [none |-> TRUE])
             ELSE [q EXCEPT !.pc = "tok_callback", !.storeOps = 1])
    /\ UNCHANGED <<env, progress, memCache,
                   users, rtStore, now, issued, revoked>>

\* POST /token up to the end of RefreshToken.findOne
Token(inputs) ==
  \E t \in inputs :
    /\ CanStart
    /\ started' = started + 1
    /\ LET q == [NewReq("token", [token |-> t])
                 EXCEPT !.afterLogout = (t \in revoked)]
       IN  req' = Arrive(
             IF t = NoToken
             THEN Answer(q, 401, [none |-> TRUE])
             ELSE IF ~RefreshTokenExists(t)
             THEN Answer([q EXCEPT !.storeOps = 1], 403, [none |-> TRUE])
             ELSE [q EXCEPT !.pc = "tok_callback", !.storeOps = 1])
    /\ UNCHANGED <<env, progress, memCache,
                   users, rtStore, now, issued, revoked>>

\* jwt.verify(refreshToken, REFRESH_TOKEN_SECRET, callback): the err that
\* the callback of the handler in state q receives
CallbackErr(q) == jwtVerify(q.body.token, RefreshSecret, now)

\* the callback's err branch: RefreshToken.deleteOne, then 403
TokenDelete ==
  \E q \in InFlight :
    /\ q.pc = "tok_callback"
    /\ CallbackErr(q) # "ok"
    /\ rtStore' = RefreshTokenDeleteOne(q.body.token)
    /\ req' = Move(q,
         Answer([q EXCEPT !.storeOps = @ + 1,
                          !.tmp = [err |-> CallbackErr(q)]],
                403, [none |-> TRUE]))
    /\ UNCHANGED <<env, progress, memCache,
                   users, now, started, issued, revoked>>

\* a refresh that rotates: the presented row is deleted on success
TokenFindByIdRotating ==
  \E q \in InFlight :
    /\ q.pc = "tok_callback"
    /\ CallbackErr(q) = "ok"
    /\ LET q1 == [q EXCEPT !.storeOps = @ + 1, !.tmp = [err |-> "ok"]]
           user == UserFindById(q.body.token.payload.userId)
       IN  /\ req' = Move(q,
                IF user = NoUser
                THEN Answer(q1, 404, [none |-> TRUE])
                ELSE Answer([q1 EXCEPT !.user = user], 200,
                            [accessToken |-> generateAccessToken(user, now)]))
           /\ rtStore' = IF user = NoUser THEN rtStore
                         ELSE RefreshTokenDeleteOne(q.body.token)
    /\ UNCHANGED <<env, progress, memCache,
                   users, now, started, issued, revoked>>

\* a refresh that signs an access token without looking at what findById
\* returned
TokenFindByIdAnyUser ==
  \E q \in InFlight :
    /\ q.pc = "tok_callback"
    /\ CallbackErr(q) = "ok"
    /\ LET q1 == [q EXCEPT !.storeOps = @ + 1, !.tmp = [err |-> "ok"]]
           ghost == [id |-> q.body.token.payload.userId, name |-> <<>>]
       IN  req' = Move(q,
             Answer(q1, 200,
                    [accessToken |-> generateAccessToken(ghost, now)]))
    /\ UNCHANGED <<env, progress, memCache,
                   users, rtStore, now, started, issued, revoked>>

\* the callback's success branch: User.findById, then 404 or a new access
\* token
TokenFindById ==
  \E q \in InFlight :
    /\ q.pc = "tok_callback"
    /\ CallbackErr(q) = "ok"
    /\ LET q1 == [q EXCEPT !.storeOps = @ + 1, !.tmp = [err |-> "ok"]]
           user == UserFindById(q.body.token.payload.userId)
       IN  req' = Move(q,
             IF user = NoUser
             THEN Answer(q1, 404, [none |-> TRUE])
             ELSE Answer([q1 EXCEPT !.user = user], 200,
                         [accessToken |-> generateAccessToken(user, now)]))
    /\ UNCHANGED <<env, progress, memCache,
                   users, rtStore, now, started, issued, revoked>>

\* a logout that ends every session instead of the presented one
LogoutAllSessions ==
  \E t \in TokenInputs :
    /\ CanStart
    /\ started' = started + 1
    /\ rtStore' = EmptyBag
    /\ req' = Arrive(
         Answer([NewReq("logout", [token |-> t]) EXCEPT !.storeOps = 1],
                204, [none |-> TRUE]))
    /\ UNCHANGED <<env, progress, memCache, users, now, issued, revoked>>

\* DELETE /logout up to the end of RefreshToken.deleteOne
Logout ==
  \E t \in TokenInputs :
    /\ CanStart
    /\ started' = started + 1
    /\ rtStore' = RefreshTokenDeleteOne(t)
    /\ req' = Arrive(
         Answer([NewReq("logout", [token |-> t]) EXCEPT !.storeOps = 1],
                204, [none |-> TRUE]))
    /\ UNCHANGED <<env, progress, memCache, users, now, issued, revoked>>

\* a middleware that also asks the refresh token store whether the
\* token's user still has a session
CoursesSessionChecked ==
  \E header \in HeaderInputs :
    /\ CanStart
    /\ started' = started + 1
    /\ LET auth == authenticateToken(header, now)
           q == [NewReq("courses", [authorization |-> header])
                 EXCEPT !.tmp = [verifiedAt |-> now]]
       IN  req' = Arrive(
             IF ~auth.next
             THEN Answer(q, auth.status, auth.out)
             ELSE IF \A row \in BagToSet(rtStore) :
                       row.userId # auth.user.userId
             THEN Answer(q, 403, [error |-> "Invalid token"])
             ELSE Answer([q EXCEPT !.user = auth.user, !.storeOps = 1],
                         200, [courses |-> "Course.find()"]))
    /\ UNCHANGED <<env, progress, memCache,
                   users, rtStore, now, issued, revoked>>

\* GET /courses on the resource server: authenticateToken, then the
\* handler up to the end of Course.find
Courses ==
  \E header \in HeaderInputs :
    /\ CanStart
    /\ started' = started + 1
    /\ LET auth == authenticateToken(header, now)
           q == [NewReq("courses", [authorization |-> header])
                 EXCEPT !.tmp = [verifiedAt |-> now]]
       IN  req' = Arrive(
             IF ~auth.next
             THEN Answer(q, auth.status, auth.out)
             ELSE Answer([q EXCEPT !.user = auth.user, !.storeOps = 1],
                         200, [courses |-> "Course.find()"]))
    /\ UNCHANGED <<env, progress, memCache,
                   users, rtStore, now, issued, revoked>>

\* the response leaves the server
Respond ==
  \E q \in InFlight :
    /\ q.pc = "respond"
    /\ req' = Leave(q)
    /\ issued' = IF q.op = "login" /\ q.status = 200
                 THEN issued \cup {q.out.refreshToken}
                 ELSE issued
    /\ revoked' = IF /\ q.op = "logout" /\ q.status = 204
                     /\ q.body.token # NoToken
                  THEN revoked \cup {q.body.token}
                  ELSE revoked
    /\ UNCHANGED <<env, progress, memCache, users, rtStore, now, started>>

Next ==
    \/ Tick
    \/ \E b \in RegisterInputs : Register(b)
    \/ RegisterSave
    \/ \E b \in LoginInputs : Login(b)
    \/ LoginSave
    \/ Token(TokenInputs)
    \/ TokenDelete
    \/ TokenFindById
    \/ Logout
    \/ Respond

Spec == Init /\ [][Next]_vars

(* ------------- the auth server and the resource server ---------------- *)
\* the resource server next to the auth server that signs the tokens it
\* verifies; the clients of this specification are the users registered
\* in an earlier run, they send well-formed login bodies and they also
\* try access tokens where a refresh token belongs
NextResource ==
    \/ Tick
    \/ Login([name |-> ValidName, password |-> GoodPassword])
    \/ LoginSave
    \/ Token(AnyTokenInputs)
    \/ TokenDelete
    \/ TokenFindById
    \/ Logout
    \/ Courses
    \/ Respond

SpecResource == Init /\ [][NextResource]_vars

(* ----------------------- one client, one call at a time ---------------- *)
\* a client that sends its next request after the response to the last
Sequential == req = EmptyBag

NextSeq ==
    \/ Tick
    \/ \E b \in RegisterInputs : Sequential /\ Register(b)
    \/ RegisterSave
    \/ \E b \in LoginInputs : Sequential /\ Login(b)
    \/ LoginSave
    \/ Respond

SpecSeq == Init /\ [][NextSeq]_vars

(* ---------------------- the store may fail ---------------------------- *)
\* the request bodies whose handler reaches its first store operation
FirstOpBodies(op) ==
    CASE op = "register" ->
           {b \in RegisterInputs :
               /\ usernameRegex(Stringify(b, "name"))
               /\ passwordRegex(Stringify(b, "password"))}
      [] op = "login" -> LoginInputs
      [] op = "token" -> {[token |-> t] : t \in TokenInputs \ {NoToken}}
      [] op = "logout" -> {[token |-> t] : t \in TokenInputs}

\* the first store operation of a handler rejects: User.findOne in
\* register and login, RefreshToken.findOne in refresh, deleteOne in
\* logout; each is awaited inside the handler's try block
StoreFailsAtStart(op) ==
  \E body \in FirstOpBodies(op) :
    /\ CanStart
    /\ started' = started + 1
    /\ req' = Arrive(
         Answer([NewReq(op, body) EXCEPT !.failed = TRUE, !.storeOps = 1],
                500, [error |-> "Server error"]))
    /\ UNCHANGED <<env, progress, memCache,
                   users, rtStore, now, issued, revoked>>

\* a later store operation rejects.  save() in register and login is
\* awaited inside the try block.  deleteOne and findById in refresh are
\* awaited inside the async callback handed to jwt.verify, whose promise
\* nobody awaits: the rejection is unhandled and no response is sent
StoreFailsLater ==
  \E q \in InFlight :
    /\ q.pc \in {"reg_save", "login_save", "tok_callback"}
    /\ req' = Move(q,
         IF q.pc \in {"reg_save", "login_save"}
         THEN Answer([q EXCEPT !.failed = TRUE, !.storeOps = @ + 1],
                     500, [error |-> "Server error"])
         ELSE [q EXCEPT !.failed = TRUE, !.storeOps = @ + 1, !.pc = "hung"])
    /\ UNCHANGED <<env, progress, memCache,
                   users, rtStore, now, started, issued, revoked>>

NextFault ==
    \/ Next
    \/ \E op \in {"register", "login", "token", "logout"} :
           StoreFailsAtStart(op)
    \/ StoreFailsLater

SpecFault == Init /\ [][NextFault]_vars

(* ------------- the resource server's progress endpoints --------------- *)
\* one clock tick stands for the lifetime of an access token, in minutes
TickMinutes == 15
\* cache('5 minutes')
CacheMinutes == 5

\* a second account of the earlier run
SecondName == <<"d", "a", "n", "_", "0", "1">>
SecondUser ==
    [id |-> 2, name |-> SecondName, password |-> bcryptHash(GoodPassword)]

\* a deployment in which two users have registered
InitProgress ==
    /\ env = [ACCESS_TOKEN_SECRET |-> "access-secret",
              REFRESH_TOKEN_SECRET |-> "refresh-secret"]
    /\ users = {EarlierUser, SecondUser}
    /\ rtStore = EmptyBag
    /\ issued = {}
    /\ now = 0
    /\ req = EmptyBag
    /\ started = 0
    /\ revoked = {}
    /\ progress = {}
    /\ memCache = {}

\* the courses collection.  The Course schema has the paths title,
\* description, category, level, createdAt and updatedAt and no path
\* chapters, so a Course document has no property chapters, whatever
\* insertMany was given.
SeededCourse == [id |-> "web-dev", title |-> "Web Development Fundamentals"]
CourseDocs == {SeededCourse}
NoCourse == [id |-> "none"]

\* Course.findById(courseId)
CourseFindById(courseId) ==
    IF \E c \in CourseDocs : c.id = courseId
    THEN CHOOSE c \in CourseDocs : c.id = courseId
    ELSE NoCourse

\* course.chapters.some(ch => ch.id === chapterId || ...): reading a
\* property of undefined throws a TypeError
chapterExists(course, chapterId) ==
    IF "chapters" \notin DOMAIN course
    THEN "TypeError"
    ELSE IF \E i \in DOMAIN course.chapters :
                course.chapters[i].id = chapterId
    THEN "yes"
    ELSE "no"

\* the Authorization headers a client of the progress endpoints can send:
\* none, or the access token that a login of one of the users signed when
\* the server started
ProgressHeaders ==
    {NoHeader} \cup {Bearer(generateAccessToken(u, 0)) : u \in users}

\* the bodies of POST /progress: a chapter of the seeded course, a chapter
\* of a course that the collection does not have, and a body that lacks
\* the chapterId
ProgressBodies ==
    {[courseId |-> "web-dev", chapterId |-> "html-basics"],
     [courseId |-> "gone", chapterId |-> "html-basics"],
     [courseId |-> "web-dev"]}

\* :userId of GET /progress/:userId
UrlUserIds == {u.id : u \in users}

\* $addToSet appends the value unless the array holds an equal element;
\* elements are whole subdocuments
addToSet(arr, e) ==
    IF \E i \in DOMAIN arr : arr[i] = e THEN arr ELSE Append(arr, e)

\* the subdocument that the update casts { chapterId, completedAt: new
\* Date() } to: the completedChapters schema gives every element its own
\* _id (the number of the request stands for the ObjectId), and new Date()
\* has millisecond resolution where the clock of the model has ticks
completedChapter(chapterId) ==
    [chapterId |-> chapterId, completedAt |-> now, _id |-> started + 1]

\* Progress.findOneAndUpdate({userId, courseId}, {$addToSet: ...},
\* {upsert: true, new: true}): the collection afterwards
ProgressFindOneAndUpdate(userId, courseId, chapterId) ==
    LET old == {p \in progress : p.userId = userId /\ p.courseId = courseId}
        base == IF old = {}
                THEN [userId |-> userId, courseId |-> courseId,
                      completedChapters |-> <<>>, updatedAt |-> now]
                ELSE CHOOSE p \in old : TRUE
    IN  (progress \ old) \cup
        {[base EXCEPT
            !.completedChapters = addToSet(@, completedChapter(chapterId)),
            !.updatedAt = now]}

\* res.json of the document that findOneAndUpdate returns with new: true;
\* the schema's toJSON transform deletes createdAt and updatedAt
ProgressDoc(store, userId, courseId) ==
    LET p == CHOOSE d \in store : d.userId = userId /\ d.courseId = courseId
    IN  [userId |-> p.userId, courseId |-> p.courseId,
         completedChapters |-> p.completedChapters]

\* Progress.find({userId}).sort({updatedAt: -1})
ProgressFind(userId) ==
    LET S == {p \in progress : p.userId = userId}
    IN  CHOOSE s \in [1..Cardinality(S) -> S] :
          /\ \A i, j \in DOMAIN s : i # j => s[i] # s[j]
          /\ \A i, j \in DOMAIN s : i < j => s[i].updatedAt >= s[j].updatedAt

\* Math.round((completed / total) * 100)
roundPercent(completed, total) == (200 * completed + total) \div (2 * total)

RECURSIVE latest(_, _)
\* completedChapters.reduce((latest, chapter) => chapter.completedAt >
\* latest ? chapter.completedAt : latest, completedChapters[0].completedAt)
latest(chapters, acc) ==
    IF chapters = <<>> THEN acc
    ELSE latest(Tail(chapters),
                IF Head(chapters).completedAt > acc
                THEN Head(chapters).completedAt ELSE acc)

\* one element of formattedProgress; a TypeError when course.chapters is
\* read from a Course document
formatProgress(p) ==
    LET course == CourseFindById(p.courseId)
        n == Len(p.completedChapters)
    IN  IF course # NoCourse /\ "chapters" \notin DOMAIN course
        THEN [threw |-> "TypeError"]
        ELSE LET totalChapters == IF course = NoCourse THEN 0
                                  ELSE Len(course.chapters)
             IN  [courseId |-> p.courseId,
                  completedChapters |-> p.completedChapters,
                  totalChaptersCompleted |-> n,
                  lastCompletedAt |->
                      IF n > 0
                      THEN latest(p.completedChapters,
                                  p.completedChapters[1].completedAt)
                      ELSE -1,
                  progressPercentage |->
                      IF totalChapters > 0
                      THEN roundPercent(n, totalChapters) ELSE 0]

\* the response cache: an entry is served while less than five minutes
\* have passed since it was stored
cacheFresh(e) == (now - e.cachedAt) * TickMinutes < CacheMinutes

NoEntry == [url |-> 0]

\* the entry that the cache middleware serves for the URL
cacheGet(url) ==
    IF \E e \in memCache : e.url = url /\ cacheFresh(e)
    THEN CHOOSE e \in memCache : e.url = url /\ cacheFresh(e)
    ELSE NoEntry

\* res.end of a response that went through the cache middleware: the
\* response is stored under the URL, whatever its status
cachePut(url, status, out) ==
    {e \in memCache : e.url # url} \cup
    {[url |-> url, status |-> status, out |-> out, cachedAt |-> now]}

\* POST /progress of the server with rate limiting and caching:
\* authenticateToken, then the handler
ProgressUpdate ==
  \E header \in ProgressHeaders : \E body \in ProgressBodies :
    /\ CanStart
    /\ started' = started + 1
    /\ LET auth == authenticateToken(header, now)
           q == NewReq("postProgress",
                       [authorization |-> header, json |-> body])
           q1 == [q EXCEPT !.user = auth.user]
           course == CourseFindById(body.courseId)
           found == chapterExists(course, body.chapterId)
           after == ProgressFindOneAndUpdate(auth.user.userId,
                                             body.courseId, body.chapterId)
       IN  IF ~auth.next
           THEN /\ req' = Arrive(Answer(q, auth.status, auth.out))
                /\ progress' = progress
           ELSE IF "courseId" \notin DOMAIN body
                   \/ "chapterId" \notin DOMAIN body
           THEN /\ req' = Arrive(Answer(q1, 400,
                           [error |-> "Missing courseId or chapterId"]))
                /\ progress' = progress
           ELSE IF course = NoCourse
           THEN /\ req' = Arrive(Answer([q1 EXCEPT !.storeOps = 1], 404,
                           [error |-> "Course not found"]))
                /\ progress' = progress
           ELSE IF found = "TypeError"
           THEN /\ req' = Arrive(Answer([q1 EXCEPT !.storeOps = 1], 500,
                           [error |-> "Failed to update progress"]))
                /\ progress' = progress
           ELSE IF found = "no"
           THEN /\ req' = Arrive(Answer([q1 EXCEPT !.storeOps = 1], 404,
                           [error |-> "Chapter not found in course"]))
                /\ progress' = progress
           ELSE /\ req' = Arrive(Answer([q1 EXCEPT !.storeOps = 2], 200,
                           ProgressDoc(after, auth.user.userId,
                                       body.courseId)))
                /\ progress' = after
    /\ UNCHANGED <<env, memCache, users, rtStore, now, issued, revoked>>

\* POST /progress of the server without them: authenticateToken, then the
\* handler, which does not look at the courses collection
ProgressUpdateV1 ==
  \E header \in ProgressHeaders : \E body \in ProgressBodies :
    /\ CanStart
    /\ started' = started + 1
    /\ LET auth == authenticateToken(header, now)
           q == NewReq("postProgressV1",
                       [authorization |-> header, json |-> body])
           q1 == [q EXCEPT !.user = auth.user]
           after == ProgressFindOneAndUpdate(auth.user.userId,
                                             body.courseId, body.chapterId)
       IN  IF ~auth.next
           THEN /\ req' = Arrive(Answer(q, auth.status, auth.out))
                /\ progress' = progress
           ELSE IF "courseId" \notin DOMAIN body
                   \/ "chapterId" \notin DOMAIN body
           THEN /\ req' = Arrive(Answer(q1, 400,
                           [error |-> "Missing courseId or chapterId"]))
                /\ progress' = progress
           ELSE /\ req' = Arrive(Answer([q1 EXCEPT !.storeOps = 1], 200,
                           ProgressDoc(after, auth.user.userId,
                                       body.courseId)))
                /\ progress' = after
    /\ UNCHANGED <<env, memCache, users, rtStore, now, issued, revoked>>

\* GET /progress/:userId of the server with caching: authenticateToken,
\* the cache middleware, then the handler up to the end of Progress.find
ProgressFetch ==
  \E header \in ProgressHeaders : \E userId \in UrlUserIds :
    /\ CanStart
    /\ started' = started + 1
    /\ LET auth == authenticateToken(header, now)
           q == NewReq("getProgress",
                       [authorization |-> header, userId |-> userId])
           q1 == [q EXCEPT !.user = auth.user]
           hit == cacheGet(userId)
           denied == [error |-> "Unauthorized access"]
       IN  IF ~auth.next
           THEN /\ req' = Arrive(Answer(q, auth.status, auth.out))
                /\ memCache' = memCache
           ELSE IF hit # NoEntry
           THEN /\ req' = Arrive(Answer([q1 EXCEPT !.tmp = [cached |-> hit]],
                                        hit.status, hit.out))
                /\ memCache' = memCache
           ELSE IF auth.user.userId # userId /\ ~auth.user.isAdmin
           THEN /\ req' = Arrive(Answer(q1, 403, denied))
                /\ memCache' = cachePut(userId, 403, denied)
           ELSE /\ req' = Arrive([q1 EXCEPT !.pc = "progress_format",
                                            !.storeOps = 1,
                                            !.tmp = [progressList |->
                                                      ProgressFind(userId)]])
                /\ memCache' = memCache
    /\ UNCHANGED <<env, progress, users, rtStore, now, issued, revoked>>

\* the rest of that handler: Course.findById for every record, the
\* formatted list, res.json; the cache middleware stores what was sent
ProgressFormat ==
  \E q \in InFlight :
    /\ q.pc = "progress_format"
    /\ LET progressList == q.tmp.progressList
           formatted == [i \in DOMAIN progressList |->
                            formatProgress(progressList[i])]
           threw == \E i \in DOMAIN formatted :
                        "threw" \in DOMAIN formatted[i]
           status == IF threw THEN 500 ELSE 200
           out == IF threw THEN [error |-> "Failed to fetch progress"]
                  ELSE [list |-> formatted]
       IN  /\ req' = Move(q,
                  Answer([q EXCEPT !.storeOps = @ + Len(progressList)],
                         status, out))
           /\ memCache' = cachePut(q.body.userId, status, out)
    /\ UNCHANGED <<env, progress, users, rtStore, now, started, issued,
                   revoked>>

\* GET /progress/:userId of the server without caching: authenticateToken,
\* the authorization check, then the statement x, which throws a
\* ReferenceError before Progress.find
ProgressFetchV1 ==
  \E header \in ProgressHeaders : \E userId \in UrlUserIds :
    /\ CanStart
    /\ started' = started + 1
    /\ LET auth == authenticateToken(header, now)
           q == NewReq("getProgressV1",
                       [authorization |-> header, userId |-> userId])
           q1 == [q EXCEPT !.user = auth.user]
       IN  req' = Arrive(
             IF ~auth.next
             THEN Answer(q, auth.status, auth.out)
             ELSE IF auth.user.userId # userId /\ ~auth.user.isAdmin
             THEN Answer(q1, 403, [error |-> "Unauthorized access"])
             ELSE Answer(q1, 500, [error |-> "Failed to fetch progress"]))
    /\ UNCHANGED <<env, progress, memCache, users, rtStore, now, issued,
                   revoked>>

\* the timer of a cache entry fires: five minutes are less than a tick,
\* so within a tick the entry may or may not be there any more
CacheTimeout ==
  \E e \in memCache :
    /\ memCache' = memCache \ {e}
    /\ UNCHANGED <<env, progress, users, rtStore, now, req, started, issued,
                   revoked>>

NextProgress ==
    \/ Tick
    \/ ProgressUpdate
    \/ ProgressUpdateV1
    \/ ProgressFetch
    \/ ProgressFormat
    \/ ProgressFetchV1
    \/ CacheTimeout
    \/ Respond

SpecProgress == InitProgress /\ [][NextProgress]_vars

(* ============================== claims ================================ *)
validCredentials(b) ==
    /\ "name" \in DOMAIN b /\ usernameRegex(b.name)
    /\ "password" \in DOMAIN b /\ passwordRegex(b.password)

\* this step is the handler in state q running up to state q2
Steps(q, q2) == q \in InFlight /\ q2 # q /\ req' = Move(q, q2)

\* this step is the arrival of a request whose handler runs up to state q2
Arrives(q2) == req' = Arrive(q2)

\* this step sends the response of the handler in state q
Sends(q) == q \in InFlight /\ q.pc = "respond" /\ req' = Leave(q)

\* C1: two POST /register requests with the same valid username and valid
\* passwords handled concurrently: one is answered 201, the other 409, so
\* a registration with valid input is never answered with any status
\* other than 201 or 409, and the name is stored at most once.
C1_ConcurrentRegisterOneWinner ==
    /\ \A q \in InFlight :
         (q.op = "register" /\ q.pc = "respond" /\ validCredentials(q.body))
         => q.status \in {201, 409}
    /\ \A u, v \in users : u.name = v.name => u = v

\* C2: once DELETE /logout with token t has been answered, t has no row
\* in the store and every POST /token with t that arrives afterwards is
\* answered 403, whatever logins, refreshes and logouts happen in between.
C2_RevocationPermanent ==
    /\ \A t \in revoked : ~RefreshTokenExists(t)
    /\ \A q \in InFlight :
         (q.op = "token" /\ q.pc = "respond" /\ q.afterLogout)
         => q.status = 403

\* a refresh takes the step that follows a verification error of kind e
CleanupStep(q, q2, e) ==
    /\ Steps(q, q2)
    /\ q.op = "token"
    /\ q.pc = "tok_callback"
    /\ q2.pc = "respond"
    /\ q2.tmp = [err |-> e]

C4_BadSignatureRemoved ==
    \A q \in InFlight :
        (q.op = "token" /\ q.pc = "respond"
           /\ q.body.token # NoToken
           /\ q.body.token.sig # RefreshSecret)
        => /\ q.status = 403
           /\ "accessToken" \notin DOMAIN q.out
           /\ ~RefreshTokenExists(q.body.token)

C4_Witness ==
    \E q \in InFlight :
        /\ q.op = "token" /\ q.pc = "respond"
        /\ q.body.token = RetiredToken
        /\ q.tmp = [err |-> "JsonWebTokenError"]
        /\ q.storeOps = 2 /\ q.status = 403
        /\ ~RefreshTokenExists(RetiredToken)

\* C5: no step of a refresh that ends in 200 changes the store, and the
\* 200 response carries a new access token and nothing else, so the
\* row of the presented refresh token is still there afterwards.
C5_NoRotation ==
    [][\A q2 \in BagToSet(req') :
         (/\ q2.op = "token"
          /\ q2.status # 403
          /\ Arrives(q2) \/ \E q \in InFlight : Steps(q, q2))
         => /\ rtStore' = rtStore
            /\ (q2.status = 200
                 => /\ DOMAIN q2.out = {"accessToken"}
                    /\ q2.out.accessToken.sig = AccessSecret
                    /\ (RefreshTokenExists(q2.body.token)
                         => RefreshTokenExists(q2.body.token)'))]_vars

C5_Witness ==
    \E q \in InFlight :
        /\ q.op = "token" /\ q.pc = "respond"
        /\ q.status = 200
        /\ RefreshTokenExists(q.body.token)

\* C6: in register, login, refresh and logout a failing store operation
\* is caught and the request is answered 500.
C6_StoreFailureAnswered500 ==
    \A q \in InFlight :
        q.failed => (q.pc = "respond" /\ q.status = 500)

C8_EveryLoginSucceeds ==
    \A q \in InFlight :
        (q.op = "login" /\ q.pc = "respond" /\ q.user # NoUser)
        => q.status = 200

\* C9: at the moment a login is answered 200 the refresh token of the
\* response has a row in the store, owned by the authenticated user.
C9_PersistedAtResponse ==
    [][\A q \in InFlight :
         (Sends(q) /\ q.op = "login" /\ q.status = 200)
         => \E row \in RowsOf(q.out.refreshToken) :
                row.userId = q.out.userId]_vars

\* C10: a refresh without a token is answered 401 before any store
\* operation; a refresh whose token has no row is answered 403 by the
\* step that looked it up, without an access token, whether or not the
\* token would verify.
C10_ChecksInOrder ==
    [][\A q2 \in BagToSet(req') :
         (Arrives(q2) /\ q2.op = "token")
         => /\ (q2.body.token = NoToken
                 => /\ q2.pc = "respond" /\ q2.status = 401
                    /\ q2.storeOps = 0)
            /\ (q2.body.token # NoToken
                   /\ ~RefreshTokenExists(q2.body.token)
                   /\ ~q2.failed
                 => /\ q2.pc = "respond" /\ q2.status = 403
                    /\ "accessToken" \notin DOMAIN q2.out)]_vars

C10_Witness ==
    \E q \in InFlight :
        /\ q.op = "token" /\ q.pc = "respond"
        /\ q.status = 403 /\ q.storeOps = 1
        /\ jwtVerify(q.body.token, RefreshSecret, now) = "ok"
        /\ q.body.token \notin revoked \cup issued

\* C11: a refresh with a stored, validly signed, unexpired token whose
\* user id matches no user document is answered 404 without an access
\* token; a refresh answers 200 only when findById found the user, and
\* the access token it returns is signed for that user.
C11_UserGone404 ==
    [][\A q \in InFlight : \A q2 \in BagToSet(req') :
         (/\ Steps(q, q2)
          /\ q.op = "token"
          /\ q.pc = "tok_callback"
          /\ jwtVerify(q.body.token, RefreshSecret, now) = "ok")
         => LET id == q.body.token.payload.userId
            IN  /\ q2.pc = "respond"
                /\ (\A u \in users : u.id # id)
                     => /\ q2.status = 404
                        /\ "accessToken" \notin DOMAIN q2.out
                /\ q2.status = 200
                     => \E u \in users :
                          /\ u.id = id
                          /\ q2.out.accessToken.payload.userId = u.id
                          /\ q2.out.accessToken.payload.name = u.name]_vars

C11_Witness ==
    \E q \in InFlight :
        /\ q.op = "token" /\ q.pc = "respond"
        /\ q.status = 404 /\ q.storeOps = 2
        /\ q.body.token = OrphanToken
        /\ RefreshTokenExists(OrphanToken)
        /\ \A u \in users : u.id # OrphanToken.payload.userId

\* C12: DELETE /logout is answered 204 whether or not the token has a row;
\* it leaves the store unchanged when there is no such row, changes no row
\* of another token string, leaves no row of the presented string, and a
\* second application to the resulting store changes nothing.
C12_LogoutIdempotent ==
    [][\A q2 \in BagToSet(req') :
         (Arrives(q2) /\ q2.op = "logout")
         => LET t == q2.body.token
            IN  /\ q2.pc = "respond" /\ q2.status = 204
                /\ ~RefreshTokenExists(t) => rtStore' = rtStore
                /\ \A row \in BagToSet(rtStore) :
                     row.token # t
                     => CopiesIn(row, rtStore') = CopiesIn(row, rtStore)
                /\ BagToSet(rtStore') \subseteq BagToSet(rtStore)
                /\ ~RefreshTokenExists(t)'
                /\ RefreshTokenDeleteOne(t)' = rtStore']_vars

C12_Witness ==
    \E q \in InFlight :
        /\ q.op = "logout" /\ q.pc = "respond" /\ q.status = 204
        /\ q.body.token \in issued
        /\ ~RefreshTokenExists(q.body.token)
        /\ \E row \in BagToSet(rtStore) :
             row.userId = q.body.token.payload.userId

\* C13: the middleware answers a request without a bearer token 401; an
\* access token that verifies under the access secret and is AccessTTL or
\* more past its issuance 401; a token that is malformed or has a wrong
\* signature 403; otherwise it attaches the token's userId, name and
\* isAdmin and calls the handler.  The handler runs if and only if the
\* token verifies and has not expired, and a request is either rejected or
\* admitted, never both.
C13_AuthenticatorStateMachine ==
    [][\A q2 \in BagToSet(req') :
         (Arrives(q2) /\ q2.op = "courses")
         => LET h == q2.body.authorization
                present == "token" \in DOMAIN h /\ h.token # NoToken
                wellSigned == /\ present /\ h.token.kind = "jwt"
                              /\ h.token.sig = AccessSecret
                rejected == q2.status \in {401, 403} /\ q2.storeOps = 0
                admitted == q2.status = 200 /\ q2.storeOps = 1
            IN  /\ q2.pc = "respond"
                /\ ~present => (q2.status = 401 /\ rejected)
                /\ (/\ wellSigned
                    /\ h.token \in IssuedAccess
                    /\ now >= h.token.iat + AccessTTL)
                     => (q2.status = 401 /\ rejected)
                /\ (present /\ ~wellSigned) => (q2.status = 403 /\ rejected)
                /\ admitted <=> (wellSigned /\ now < h.token.exp)
                /\ admitted <=> ~rejected
                /\ admitted
                     => /\ q2.user.userId = h.token.payload.userId
                        /\ q2.user.isAdmin =
                             ("isAdmin" \in DOMAIN h.token.payload
                                /\ h.token.payload.isAdmin)
                        /\ "name" \in DOMAIN h.token.payload
                             => q2.user.name = h.token.payload.name]_vars

C13_Witness ==
    /\ \E q \in InFlight :
         /\ q.op = "courses" /\ q.status = 200 /\ q.storeOps = 1
         /\ q.user = [userId |-> EarlierUser.id, name |-> ValidName,
                       isAdmin |-> FALSE]
    /\ \E q \in InFlight :
         /\ q.op = "courses" /\ q.status = 401 /\ q.storeOps = 0
         /\ q.out = [error |-> "Token expired"]
         /\ q.body.authorization.token \in IssuedAccess

\* C14: the middleware's outcome is a function of the presented header and
\* the time of the verification alone: two requests with the same header
\* verified at the same time have the same status, response and attached
\* identity, whatever the users and refresh token collections held when
\* each was verified (before or after the owner's logout, for example).
C14_AuthenticatorStateless ==
    \A q \in InFlight : \A p \in InFlight :
        (/\ q.op = "courses" /\ p.op = "courses"
         /\ q.body = p.body
         /\ q.tmp = p.tmp)
        => (q.status = p.status /\ q.out = p.out /\ q.user = p.user
              /\ q.storeOps = p.storeOps)

C14_Witness ==
    \E q \in InFlight :
        /\ q.op = "courses" /\ q.status = 200
        /\ CopiesIn(q, req) = 2
        /\ \E t \in revoked : t.payload.userId = q.user.userId
        /\ \A row \in BagToSet(rtStore) : row.userId # q.user.userId

\* C15: the access token of a successful login carries the user's id, name
\* and admin flag, the admin flag being the one supplied at registration
\* (false when none was supplied).  Stated for a login answered while the
\* 201 response of the user's registration is still on its way.
C15_AdminFlagInToken ==
    \A q \in InFlight : \A p \in InFlight :
        (/\ q.op = "register" /\ q.pc = "respond" /\ q.status = 201
         /\ p.op = "login" /\ p.pc = "respond" /\ p.status = 200
         /\ p.user.id = q.user.id)
        => /\ p.out.accessToken.payload =
                [userId |-> q.user.id, name |-> q.body.name,
                 isAdmin |-> requestedAdmin(q.body)]
           /\ p.out.isAdmin = requestedAdmin(q.body)

\* C16: with calls made one after the other, a registration with a valid
\* username that is not stored yet goes on to save, is answered 201 and
\* stores one user of that name; every registration with a stored username
\* is answered 409 and leaves the users collection as it was; and no two
\* user documents ever share a name.
C16_SequentialRegisterOnce ==
    /\ [](\A u \in users : \A v \in users : u.name = v.name => u = v)
    /\ [][/\ \A q2 \in BagToSet(req') :
              (Arrives(q2) /\ q2.op = "register"
                 /\ validCredentials(q2.body))
              => IF \E u \in users : u.name = q2.body.name
                 THEN /\ q2.pc = "respond" /\ q2.status = 409
                      /\ users' = users
                 ELSE q2.pc = "reg_save" /\ users' = users
         /\ \A q \in InFlight : \A q2 \in BagToSet(req') :
              (Steps(q, q2) /\ q.op = "register"
                 /\ validCredentials(q.body))
              => /\ q2.pc = "respond" /\ q2.status = 201
                 /\ \A u \in users : u.name # q.body.name
                 /\ \E u \in users' :
                      /\ u.name = q.body.name
                      /\ users' = users \cup {u}
                      /\ q2.out = [id |-> u.id, name |-> u.name]]_vars

C16_Witness ==
    \E q \in InFlight :
        /\ q.op = "register" /\ q.pc = "respond" /\ q.status = 409
        /\ validCredentials(q.body)
        /\ started >= 2
        /\ \E u \in users : u.name = q.body.name

\* C17: a registration whose username is not 3-20 letters, digits or
\* underscores, or whose password is not 8 or more characters with an
\* uppercase letter, a lowercase letter and a digit, is answered 400 before
\* any store operation, so before the duplicate check, and no step of it
\* changes the users collection.
C17_ValidationRejects ==
    [][/\ \A q2 \in BagToSet(req') :
            (Arrives(q2) /\ q2.op = "register"
               /\ ~validCredentials(q2.body))
            => /\ q2.pc = "respond" /\ q2.status = 400
               /\ q2.storeOps = 0
               /\ users' = users
       /\ \A q \in InFlight : \A q2 \in BagToSet(req') :
            (Steps(q, q2) /\ q.op = "register"
               /\ ~validCredentials(q.body))
            => users' = users]_vars

\* C18: a login with a name that no user has, and a login with the name of
\* a user and a password that does not match it (an absent password
\* included), are answered alike: 401 with {error: 'Invalid credentials'},
\* and no token is signed.
C18_SameRejection ==
    \A q \in InFlight :
        (/\ q.op = "login" /\ q.pc = "respond" /\ ~q.failed
         /\ \/ "password" \notin DOMAIN q.body
            \/ \A u \in users :
                  ~(u.name = q.body.name
                      /\ bcryptCompare(q.body.password, u.password)))
        => /\ q.status = 401
           /\ q.out = [error |-> "Invalid credentials"]
           /\ q.tmp = NoToken

\* C19: tokens are not interchangeable between the two servers, which is
\* what secrets that differ give: the middleware never admits a refresh
\* token that a login handed out, and a refresh with an access token that a
\* login handed out is never answered 200.
C19_TokensNotInterchangeable ==
    /\ \A q \in InFlight :
         (q.op = "courses" /\ q.pc = "respond"
            /\ headerToken(q.body.authorization) \in issued)
         => (q.status # 200 /\ q.storeOps = 0)
    /\ \A q \in InFlight :
         (q.op = "token" /\ q.body.token \in IssuedAccess)
         => q.status # 200

\* C20: a login answered 401 has run one bcrypt comparison before the
\* response, with the work of a comparison against a hash that register
\* stores; this holds on the path where no user has the name (the dummy
\* hash) as on the path where the password is wrong.
C20_DummyCompare ==
    \A q \in InFlight :
        (q.op = "login" /\ q.pc = "respond" /\ q.status = 401)
        => /\ q.work = bcryptWork(bcryptHash(GoodPassword))
           /\ \A u \in users : q.work = bcryptWork(u.password)

C20_Witness ==
    \E q \in InFlight :
        /\ q.op = "login" /\ q.pc = "respond" /\ q.status = 401
        /\ UserFindOneOf(q.body) = NoUser
        /\ q.work = 2 ^ BcryptCost

\* C21: a revocation is not overtaken by a refresh that is in flight: once
\* the 204 of a logout for token t has left the server, no refresh for t
\* is answered 200 any more, also not by a handler that had found the row
\* of t before the logout deleted it and is still waiting in its callback.
C21_RevocationNotOvertaken ==
    [][\A q \in InFlight : \A q2 \in BagToSet(req') :
         (/\ q.op = "token" /\ q.pc = "tok_callback"
          /\ q.body.token \in revoked
          /\ Steps(q, q2))
         => q2.status # 200]_vars

\* C22: GET /progress/:userId gives the progress of user X only to a
\* requester whose access token carries userId = X or isAdmin = true: every
\* other authenticated requester is answered 403 without a byte of X's
\* progress, whoever asked for the URL before and whether or not a
\* response for the URL is held in the response cache.
C22_ProgressOnlyToOwner ==
    \A q \in InFlight :
        (/\ q.op \in {"getProgress", "getProgressV1"}
         /\ q.pc = "respond"
         /\ q.user # NoUser
         /\ q.user.userId # q.body.userId
         /\ ~q.user.isAdmin)
        => /\ q.status = 403
           /\ "list" \notin DOMAIN q.out

\* C23: recording a chapter is idempotent: a progress record holds at most
\* one entry for a chapterId, however often POST /progress was called for
\* the chapter, and no response of GET /progress/:userId reports more than
\* 100 percent.
C23_OneEntryPerChapter ==
    /\ \A p \in progress :
         \A i, j \in DOMAIN p.completedChapters :
             p.completedChapters[i].chapterId
                 = p.completedChapters[j].chapterId
             => i = j
    /\ \A q \in InFlight :
         (q.op = "getProgress" /\ q.pc = "respond" /\ q.status = 200)
         => \A i \in DOMAIN q.out.list :
                q.out.list[i].progressPercentage <= 100

====
